---- MODULE Spec2Model ----
(***************************************************************************)
(* Model of the durable job actor of agent-core (src/src/base-do.ts) and of *)
(* its dispatch/poll client and promise pool (src/src/dispatcher.ts).      *)
(* Each component has its own specification; the variables of the other    *)
(* components stay at their initial values.                                *)
(*                                                                         *)
(* JavaScript objects are modelled as functions whose DOMAIN is the set of *)
(* fields that are present: an `undefined` field is a key that is not in   *)
(* the DOMAIN.  JSON.stringify drops undefined fields and JSON.parse       *)
(* restores exactly the present ones, so a stored value is the object      *)
(* itself.  `new Date().toISOString()` and `Date.now()` are the integer    *)
(* millisecond clock `now`.                                                *)
(*                                                                         *)
(* The abstract hooks (handleStart, processAlarm, getStatusResponse) are   *)
(* the environment: handleStart and getStatusResponse follow the README    *)
(* example, processAlarm is any bounded sequence of calls of the protected *)
(* helpers that ends by returning true, returning false, or throwing.      *)
(***************************************************************************)
EXTENDS Integers, Sequences, FiniteSets, TLC

VARIABLES
    kv,          \* the _agent_kv table: key -> stored value
    alarms,      \* wake-up times pending in ctx.storage
    now,         \* wall clock, ms
    ticks,       \* number of clock advances so far
    pc,          \* "idle", or "advance" while alarm() is inside processAlarm
    st,          \* <<state>> handed to processAlarm (the in-memory object), else <<>>
    ast,         \* <<alarmState>> handed to processAlarm, else <<>>
    calls,       \* helper calls made by processAlarm in this wake-up
    lastOp,      \* the handler step that ran last
    resp,        \* body and HTTP status of the last fetch() response
    pre,         \* kv as it was when the last wake-up began
    lastWrite,   \* last job-state write of the current/last handler
    armed,       \* processAlarm called scheduleAlarm in the current/last wake-up
    reads,       \* status queries answered since the last job-state write (capped at 2)
    throws       \* wake-ups that ended in the catch block since the last
                 \* accepted start or the last wake-up that returned

\* dispatcher.ts: dispatchToAgent, pollAgentStatus, pollAgentStatusUntilDone
VARIABLES
    dOp,         \* the dispatcher function that returned last
    dIn,         \* what the remote call of that function did
    dOut,        \* what the function returned
    wall,        \* Date.now() as seen by pollAgentStatusUntilDone
    uPc,         \* position inside pollAgentStatusUntilDone
    uArgs,       \* its pollIntervalMs and timeoutMs
    uStart,      \* its startTime
    uBegin,      \* time at which the poll in flight (or the last poll) began
    uLastEnd,    \* time at which the previous poll returned, -1 before the first
    uLast,       \* <<result>> of the last poll, <<>> before the first
    uResult      \* <<result>> returned by pollAgentStatusUntilDone, else <<>>

\* dispatcher.ts: PromisePool
VARIABLES
    concurrency, \* the constructor argument, 0 before the pool is constructed
    running,     \* PromisePool.running
    queue,       \* PromisePool.queue: the queued units, oldest first
    unit,        \* per unit: where its fn() is
    path,        \* per unit: "direct" if add() started it, "queued" if it was queued
    addPromise,  \* per unit: state of the promise returned by add()
    submitted,   \* number of add() calls so far (units are numbered in that order)
    started,     \* the units in the order their fn() was called
    drain        \* state of the drain() call

avars == <<kv, alarms, now, ticks, pc, st, ast, calls, lastOp, resp, pre,
           lastWrite, armed, reads, throws>>
dvars == <<dOp, dIn, dOut, wall, uPc, uArgs, uStart, uBegin, uLastEnd, uLast,
           uResult>>
\* the collection writer (logger): W calls of writeJobLog against one collection
VARIABLES
    wMax,       \* maxRetries of the deployed logger (0: none deployed yet)
    wPc,        \* per call: "idle", "read", "put", "done", "threw", "hung"
    wAttempt,   \* per call: the loop variable attempt
    wCid,       \* per call: the tip it read: "none", "tip" (still the
                \* collection's tip) or "stale" (the collection moved on)
    wReads,     \* per call: number of tip reads issued
    wCreates,   \* per call: number of POST /files issued
    wResult,    \* per call: <<>> or <<the value writeJobLog returned>>
    files,      \* remote: ids of the file entities that exist
    contains,   \* remote: peers of the collection's 'contains' relationships
    disturbed   \* TRUE once a remote call failed otherwise than by a CAS
                \* conflict, or somebody else updated the collection

pvars == <<concurrency, running, queue, unit, path, addPromise, submitted,
           started, drain>>

\* the router's POST /process in front of the actor of job JobId
VARIABLES
    rIn,        \* the last request and its circumstances, <<>> before the first
    rResp,      \* the last response of POST /process, <<>> before the first
    rSent,      \* number of requests the router sent to the actor
    rCalls      \* number of POST /process requests handled

\* utils.ts: one call of withRetry
VARIABLES
    tPc,        \* "idle", "call" (fn is about to be called), "sleep",
                \* "caught" (catch block left without a sleep), "returned",
                \* "threw"
    tArgs,      \* maxRetries and baseDelayMs after defaulting
    tAttempt,   \* the loop variable attempt
    tLastError, \* <<lastError>>, <<>> while undefined
    tLog,       \* what each call of fn did, in call order
    tSleeps,    \* the delay of each sleep, in order
    tResult     \* <<value returned>> or <<error thrown>>, else <<>>

wvars == <<wMax, wPc, wAttempt, wCid, wReads, wCreates, wResult, files,
           contains, disturbed>>

rvars == <<rIn, rResp, rSent, rCalls>>
tvars == <<tPc, tArgs, tAttempt, tLastError, tLog, tSleeps, tResult>>

vars == <<avars, dvars, pvars, wvars, rvars, tvars>>

\* what a step of one component leaves alone
ActorStep == UNCHANGED <<dvars, pvars, wvars, rvars, tvars>>
DispatcherStep == UNCHANGED <<avars, pvars, wvars, rvars, tvars>>
PoolStep == UNCHANGED <<avars, dvars, wvars, rvars, tvars>>
WriterStep == UNCHANGED <<avars, dvars, pvars, rvars, tvars>>
RouterStep == UNCHANGED <<dvars, pvars, wvars, tvars>>
RetryStep == UNCHANGED <<avars, dvars, pvars, wvars, rvars>>

\* ---------------------------------------------------------------- bounds
MaxTicks == 2
MaxCalls == 3
MaxUnits == 3
MaxConcurrency == 2
MaxWriters == 2
MaxRequests == 2
MaxRetriesArg == 3

\* ------------------------------------------------------- program constants
STATE_KEY == "state"
ALARM_STATE_KEY == "alarm_state"
RetryDelayMs == 5000
ImmediateDelayMs == 100

\* ------------------------------------------------------------ input sets
TickSteps == {100, 5000}
CustomDelays == {1000}
Results == {"r1", "r2"}
ErrorCodes == {"E1"}
Phases == {"dispatch", "poll", "process", "complete"}
SavedPhases == {"poll"}
JobId == "j1"

\* --------------------------------------------------------------- objects
Has(obj, k) == k \in DOMAIN obj
Set(obj, k, v) == (k :> v) @@ obj

Terminal(state) == state.status \in {"done", "error"}

\* ------------------------------------------------------- state management
getState(table) ==
    IF STATE_KEY \in DOMAIN table THEN <<table[STATE_KEY]>> ELSE <<>>

\* a save that keeps the creation time as the freshness stamp
stamp_startedAt(state, t) == Set(state, "updated_at", state.started_at)

\* the in-memory object after saveState stamped it
stamp(state, t) == Set(state, "updated_at", t)

saveState(table, state, t) == Set(table, STATE_KEY, stamp(state, t))

getAlarmState(table) ==
    IF ALARM_STATE_KEY \in DOMAIN table THEN <<table[ALARM_STATE_KEY]>> ELSE <<>>

saveAlarmState(table, alarmState) == Set(table, ALARM_STATE_KEY, alarmState)

clearAlarmState(table) ==
    [k \in (DOMAIN table) \ {ALARM_STATE_KEY} |-> table[k]]

\* ------------------------------------------------------- alarm scheduling
\* ctx.storage.setAlarm: a Durable Object has one alarm slot, setting it
\* replaces whatever was pending
scheduleAlarm(pending, t, delayMs) == {t + delayMs}

\* a start that leaves the wake-up slot as it was
scheduleImmediateAlarm_notArmed(pending, t) == pending

scheduleImmediateAlarm(pending, t) == scheduleAlarm(pending, t, ImmediateDelayMs)

\* ---------------------------------------------------------------- helpers
\* the in-memory object after failJob's assignments (before saveState)
failJob(state, code, message, t) ==
    Set(Set(Set(state, "status", "error"), "completed_at", t),
        "error", [code |-> code, message |-> message])

\* completeJob that forgets the completion timestamp
completeJob_noCompletedAt(state, result, t) ==
    LET s1 == Set(state, "status", "done")
    IN  IF result # <<>> THEN Set(s1, "result", result[1]) ELSE s1

\* the in-memory object after completeJob's assignments; result is <<>> when
\* the optional argument is omitted, else <<r>>
completeJob(state, result, t) ==
    LET s1 == Set(Set(state, "status", "done"), "completed_at", t)
    IN  IF result # <<>> THEN Set(s1, "result", result[1]) ELSE s1

\* ------------------------------------------------------------------ hooks
\* README example: the initial job state built by handleStart
initialState(jobId, t) ==
    [job_id |-> jobId, status |-> "pending", started_at |-> t,
     progress |-> [total |-> 1, pending |-> 1, done |-> 0, error |-> 0]]

\* README example / BaseStatusResponse: projection of the job state
StatusFields ==
    {"job_id", "status", "progress", "result", "error",
     "started_at", "completed_at", "updated_at"}

\* a projection that leaves the result out
getStatusResponse_noResult(state) ==
    [k \in (DOMAIN state) \cap (StatusFields \ {"result"}) |-> state[k]]

getStatusResponse(state) ==
    [k \in (DOMAIN state) \cap StatusFields |-> state[k]]

NoWrite == [op |-> "none"]

\* ------------------------------------------------------------------- Init
Units == 1..MaxUnits

\* no dispatcher function has been called
InitDispatcher ==
    /\ dOp = "init"
    /\ dIn = <<>>
    /\ dOut = <<>>
    /\ wall = 0
    /\ uPc = "idle"
    /\ uArgs = <<>>
    /\ uStart = 0
    /\ uBegin = 0
    /\ uLastEnd = -1
    /\ uLast = <<>>
    /\ uResult = <<>>

\* no PromisePool has been constructed
InitPool ==
    /\ concurrency = 0
    /\ running = 0
    /\ queue = <<>>
    /\ unit = [u \in Units |-> "new"]
    /\ path = [u \in Units |-> "none"]
    /\ addPromise = [u \in Units |-> "none"]
    /\ submitted = 0
    /\ started = <<>>
    /\ drain = "none"

Writers == 1..MaxWriters

InitWriter ==
    /\ wMax = 0
    /\ wPc = [w \in Writers |-> "idle"]
    /\ wAttempt = [w \in Writers |-> 0]
    /\ wCid = [w \in Writers |-> "none"]
    /\ wReads = [w \in Writers |-> 0]
    /\ wCreates = [w \in Writers |-> 0]
    /\ wResult = [w \in Writers |-> <<>>]
    /\ files = {}
    /\ contains = {}
    /\ disturbed = FALSE

InitRouter ==
    /\ rIn = <<>>
    /\ rResp = <<>>
    /\ rSent = 0
    /\ rCalls = 0

InitRetry ==
    /\ tPc = "idle"
    /\ tArgs = <<>>
    /\ tAttempt = 0
    /\ tLastError = <<>>
    /\ tLog = <<>>
    /\ tSleeps = <<>>
    /\ tResult = <<>>

Init ==
    /\ InitDispatcher
    /\ InitPool
    /\ InitWriter
    /\ InitRouter
    /\ InitRetry
    /\ kv = <<>>
    /\ alarms = {}
    /\ now = 0
    /\ ticks = 0
    /\ pc = "idle"
    /\ st = <<>>
    /\ ast = <<>>
    /\ calls = 0
    /\ lastOp = "init"
    /\ throws = 0
    /\ resp = <<>>
    /\ pre = <<>>
    /\ lastWrite = NoWrite
    /\ armed = FALSE
    /\ reads = 0

\* ---------------------------------------------------------------- actions
\* the clock advances (between handlers, or at an await inside processAlarm)
Tick ==
    /\ ticks < MaxTicks
    /\ \E d \in TickSteps : now' = now + d
    /\ ticks' = ticks + 1
    /\ lastOp' = IF pc = "idle" THEN "tick" ELSE lastOp
    /\ UNCHANGED <<throws, kv, alarms, pc, st, ast, calls, resp, pre, lastWrite,
                   armed, reads>>
    /\ ActorStep

\* a fetch() that hands a start to handleStart only when no job is stored
fetchStartAccept_ifNew ==
    /\ pc = "idle"
    /\ getState(kv) = <<>>
    /\ kv' = saveState(kv, initialState(JobId, now), now)
    /\ alarms' = scheduleImmediateAlarm(alarms, now)
    /\ resp' = [status |-> 200, body |-> [accepted |-> TRUE, job_id |-> JobId]]
    /\ lastOp' = "start_accepted"
    /\ lastWrite' = [op |-> "handleStart"]
    /\ reads' = 0
    /\ UNCHANGED <<now, ticks, pc, st, ast, calls, pre, armed>>
    /\ throws' = 0
    /\ ActorStep

\* fetch() with action 'start', handleStart as in the README example
fetchStartAccept ==
    /\ pc = "idle"
    /\ kv' = saveState(kv, initialState(JobId, now), now)
    /\ alarms' = scheduleImmediateAlarm(alarms, now)
    /\ resp' = [status |-> 200, body |-> [accepted |-> TRUE, job_id |-> JobId]]
    /\ lastOp' = "start_accepted"
    /\ lastWrite' = [op |-> "handleStart"]
    /\ reads' = 0
    /\ UNCHANGED <<now, ticks, pc, st, ast, calls, pre, armed>>
    /\ throws' = 0
    /\ ActorStep

\* fetch() with action 'start', handleStart rejecting the request
fetchStartReject ==
    /\ pc = "idle"
    /\ resp' = [status |-> 200,
                body |-> [accepted |-> FALSE, error |-> "rejected"]]
    /\ lastOp' = "start_rejected"
    /\ lastWrite' = NoWrite
    /\ reads' = 0
    /\ UNCHANGED <<throws, kv, alarms, now, ticks, pc, st, ast, calls, pre, armed>>
    /\ ActorStep

\* a status handler that saves the state it read
fetchStatus_touch ==
    /\ pc = "idle"
    /\ LET state == getState(kv)
       IN  IF state = <<>>
           THEN /\ resp' = [status |-> 404, body |-> [error |-> "Job not found"]]
                /\ lastOp' = "status_404"
                /\ reads' = 0
                /\ kv' = kv
           ELSE /\ resp' = [status |-> 200, body |-> getStatusResponse(state[1])]
                /\ lastOp' = "status"
                /\ reads' = IF reads < 2 THEN reads + 1 ELSE 2
                /\ kv' = saveState(kv, state[1], now)
    /\ UNCHANGED <<throws, alarms, now, ticks, pc, st, ast, calls, pre,
                   lastWrite, armed>>
    /\ ActorStep

\* a status handler that answers for a fresh job when nothing is stored
fetchStatus_default ==
    /\ pc = "idle"
    /\ LET state == getState(kv)
           shown == IF state = <<>> THEN initialState(JobId, now) ELSE state[1]
       IN  /\ resp' = [status |-> 200, body |-> getStatusResponse(shown)]
           /\ lastOp' = "status"
           /\ reads' = IF reads < 2 THEN reads + 1 ELSE 2
    /\ UNCHANGED <<throws, kv, alarms, now, ticks, pc, st, ast, calls, pre,
                   lastWrite, armed>>
    /\ ActorStep

\* fetch() with action 'status'
fetchStatus ==
    /\ pc = "idle"
    /\ LET state == getState(kv)
       IN  IF state = <<>>
           THEN /\ resp' = [status |-> 404, body |-> [error |-> "Job not found"]]
                /\ lastOp' = "status_404"
                /\ reads' = 0
           ELSE /\ resp' = [status |-> 200, body |-> getStatusResponse(state[1])]
                /\ lastOp' = "status"
                /\ reads' = IF reads < 2 THEN reads + 1 ELSE 2
    /\ UNCHANGED <<throws, kv, alarms, now, ticks, pc, st, ast, calls, pre,
                   lastWrite, armed>>
    /\ ActorStep

\* router, GET /status/:job_id: the HTTP status it answers with, from the
\* status of the actor's response (Response.ok is 200..299)
routerStatusCode(doStatus) == IF doStatus \in 200..299 THEN 200 ELSE 404

\* alarm(): the "already complete" test on the state it read
alreadyComplete_doneOnly(state) == state.status = "done"

alreadyComplete(state) == state.status = "done" \/ state.status = "error"

\* a wake-up that always starts from the default alarm state
alarmStateOrDefault_fresh(stored) ==
    <<[phase |-> "dispatch"]>>

\* let alarmState = await this.getAlarmState();
\* if (!alarmState) alarmState = { phase: 'dispatch' }
alarmStateOrDefault(stored) ==
    IF stored = <<>> THEN <<[phase |-> "dispatch"]>> ELSE stored

\* alarm(): the platform fires a due wake-up and clears the slot; the
\* handler returns early when there is no state or the job is terminal,
\* otherwise it enters processAlarm
alarm ==
    /\ pc = "idle"
    /\ \E t \in alarms :
         /\ t <= now
         /\ LET state == getState(kv)
                stored == getAlarmState(kv)
            IN  IF state = <<>> \/ alreadyComplete(state[1])
                THEN /\ lastOp' = IF state = <<>> THEN "alarm_nostate"
                                                   ELSE "alarm_skip"
                     /\ alarms' = alarms \ {t}
                     /\ UNCHANGED <<pc, st, ast>>
                ELSE /\ lastOp' = "alarm_begin"
                     /\ alarms' = alarms \ {t}
                     /\ pc' = "advance"
                     /\ st' = state
                     /\ ast' = alarmStateOrDefault(stored)
    /\ pre' = kv
    /\ calls' = 0
    /\ lastWrite' = NoWrite
    /\ armed' = FALSE
    /\ UNCHANGED <<throws, kv, now, ticks, resp, reads>>
    /\ ActorStep

\* ------------------------------------------- processAlarm (job-specific)
\* processAlarm persists a unit of work: pending -> running, then saveState
advSaveState ==
    /\ pc = "advance"
    /\ calls < MaxCalls
    /\ LET s == IF st[1].status = "pending"
                THEN Set(st[1], "status", "running")
                ELSE st[1]
       IN  /\ st' = <<stamp(s, now)>>
           /\ kv' = saveState(kv, s, now)
    /\ calls' = calls + 1
    /\ lastWrite' = [op |-> "saveState"]
    /\ reads' = 0
    /\ UNCHANGED <<throws, alarms, now, ticks, pc, ast, lastOp, resp, pre, armed>>
    /\ ActorStep

\* processAlarm stores a cursor for the next wake-up
advSaveAlarmState ==
    /\ pc = "advance"
    /\ calls < MaxCalls
    /\ \E p \in SavedPhases : kv' = saveAlarmState(kv, [phase |-> p])
    /\ calls' = calls + 1
    /\ UNCHANGED <<throws, alarms, now, ticks, pc, st, ast, lastOp, resp, pre,
                   lastWrite, armed, reads>>
    /\ ActorStep

advClearAlarmState ==
    /\ pc = "advance"
    /\ calls < MaxCalls
    /\ kv' = clearAlarmState(kv)
    /\ calls' = calls + 1
    /\ UNCHANGED <<throws, alarms, now, ticks, pc, st, ast, lastOp, resp, pre,
                   lastWrite, armed, reads>>
    /\ ActorStep

\* processAlarm arms its own wake-up with a custom delay
advScheduleAlarm ==
    /\ pc = "advance"
    /\ calls < MaxCalls
    /\ \E d \in CustomDelays : alarms' = scheduleAlarm(alarms, now, d)
    /\ calls' = calls + 1
    /\ armed' = TRUE
    /\ UNCHANGED <<throws, kv, now, ticks, pc, st, ast, lastOp, resp, pre,
                   lastWrite, reads>>
    /\ ActorStep

advCompleteJob ==
    /\ pc = "advance"
    /\ calls < MaxCalls
    /\ \E r \in {<<>>} \cup {<<x>> : x \in Results} :
         LET s == completeJob(st[1], r, now)
         IN  /\ st' = <<stamp(s, now)>>
             /\ kv' = saveState(kv, s, now)
             /\ lastWrite' = [op |-> "completeJob", result |-> r]
    /\ calls' = calls + 1
    /\ reads' = 0
    /\ UNCHANGED <<throws, alarms, now, ticks, pc, ast, lastOp, resp, pre, armed>>
    /\ ActorStep

advFailJob ==
    /\ pc = "advance"
    /\ calls < MaxCalls
    /\ \E c \in ErrorCodes :
         LET s == failJob(st[1], c, "failed", now)
         IN  /\ st' = <<stamp(s, now)>>
             /\ kv' = saveState(kv, s, now)
             /\ lastWrite' = [op |-> "failJob", code |-> c]
    /\ calls' = calls + 1
    /\ reads' = 0
    /\ UNCHANGED <<throws, alarms, now, ticks, pc, ast, lastOp, resp, pre, armed>>
    /\ ActorStep

\* processAlarm resolves: alarm() only logs when the value is false
advReturn ==
    /\ pc = "advance"
    /\ \E shouldContinue \in BOOLEAN :
         lastOp' = IF shouldContinue THEN "alarm_true" ELSE "alarm_false"
    /\ pc' = "idle"
    /\ st' = <<>>
    /\ ast' = <<>>
    /\ UNCHANGED <<kv, alarms, now, ticks, calls, resp, pre, lastWrite,
                   armed, reads>>
    /\ throws' = 0
    /\ ActorStep

\* a catch block that re-arms only when no wake-up is pending
advThrow_keepArmed ==
    /\ pc = "advance"
    /\ alarms' = IF alarms = {} THEN scheduleAlarm(alarms, now, RetryDelayMs)
                                ELSE alarms
    /\ lastOp' = "alarm_throw"
    /\ pc' = "idle"
    /\ st' = <<>>
    /\ ast' = <<>>
    /\ UNCHANGED <<kv, now, ticks, calls, resp, pre, lastWrite, armed, reads>>
    /\ throws' = throws + 1
    /\ ActorStep

\* a catch block that also marks the job failed
advThrow_failJob ==
    /\ pc = "advance"
    /\ kv' = saveState(kv, failJob(st[1], "ALARM_ERROR", "failed", now), now)
    /\ alarms' = scheduleAlarm(alarms, now, RetryDelayMs)
    /\ lastOp' = "alarm_throw"
    /\ pc' = "idle"
    /\ st' = <<>>
    /\ ast' = <<>>
    /\ UNCHANGED <<now, ticks, calls, resp, pre, lastWrite, armed, reads>>
    /\ throws' = throws + 1
    /\ ActorStep

\* a catch block that gives up after the first failed wake-up
advThrow_maxRetries ==
    /\ pc = "advance"
    /\ IF throws >= 1
       THEN /\ kv' = saveState(kv, failJob(st[1], "MAX_RETRIES", "failed", now), now)
            /\ UNCHANGED alarms
       ELSE /\ alarms' = scheduleAlarm(alarms, now, RetryDelayMs)
            /\ UNCHANGED kv
    /\ lastOp' = "alarm_throw"
    /\ pc' = "idle"
    /\ st' = <<>>
    /\ ast' = <<>>
    /\ UNCHANGED <<now, ticks, calls, resp, pre, lastWrite, armed, reads>>
    /\ throws' = throws + 1
    /\ ActorStep

\* processAlarm throws or rejects: the catch block of alarm()
advThrow ==
    /\ pc = "advance"
    /\ alarms' = scheduleAlarm(alarms, now, RetryDelayMs)
    /\ lastOp' = "alarm_throw"
    /\ pc' = "idle"
    /\ st' = <<>>
    /\ ast' = <<>>
    /\ UNCHANGED <<kv, now, ticks, calls, resp, pre, lastWrite, armed, reads>>
    /\ throws' = throws + 1
    /\ ActorStep

Next ==
    \/ Tick
    \/ fetchStartAccept
    \/ fetchStartReject
    \/ fetchStatus
    \/ alarm
    \/ advSaveState
    \/ advSaveAlarmState
    \/ advClearAlarmState
    \/ advScheduleAlarm
    \/ advCompleteJob
    \/ advFailJob
    \/ advReturn
    \/ advThrow

Spec == Init /\ [][Next]_vars


\* =============================================== dispatcher.ts: poll/dispatch
Opt(k, present, v) == IF present THEN (k :> v) ELSE <<>>

\* ------------------------------------------------------------ input sets
RemoteStatuses == {"pending", "running", "done", "error", "unknown"}

\* JSON objects a status endpoint may answer with (every field optional)
StatusBodies ==
    { Opt("status", s # "absent", s) @@ Opt("result", r, "res")
        @@ Opt("error", e # "absent",
               IF e = "message" THEN [code |-> "X", message |-> "boom"]
                                ELSE [code |-> "X"]) :
        s \in RemoteStatuses \cup {"absent"}, r \in BOOLEAN,
        e \in {"absent", "message", "nomessage"} }

\* res.json(): rejects, or yields null, or yields an object
JsonBodies ==
    {[parse |-> "throws"], [parse |-> "null"]}
      \cup {[parse |-> "object", data |-> d] : d \in StatusBodies}

\* fetch(statusUrl): rejects, or resolves to a response
PollOutcomes ==
    {[kind |-> "throws"]}
      \cup {[kind |-> "response", ok |-> b, json |-> j] :
              b \in BOOLEAN, j \in JsonBodies}

\* JSON objects the invoke endpoint may answer with (every field optional)
InvokeBodies ==
    { Opt("status", s # "absent", s) @@ Opt("job_id", j, "sub1")
        @@ Opt("error", e, "no quota") :
        s \in {"absent", "started", "rejected", "other"},
        j \in BOOLEAN, e \in BOOLEAN }

\* client.api.POST: throws an Error or something else, or resolves to
\* {data, error}, each <<>> when undefined
DispatchOutcomes ==
    {[kind |-> "throws", thrown |-> t] :
        t \in {[isError |-> TRUE, message |-> "net down"], [isError |-> FALSE]}}
      \cup {[kind |-> "response", error |-> e, data |-> d] :
              e \in {<<>>, <<[code |-> 403]>>},
              d \in {<<>>} \cup {<<b>> : b \in InvokeBodies}}

PollIntervals == {0, 100}
PollTimeouts == {0, 100, 250}
PollLatencies == {0, 100}
SleepOvershoots == {0, 50}

\* ------------------------------------------------------- pollAgentStatus
StillRunning == [done |-> FALSE, status |-> "running"]

\* a try block without the res.ok test
pollTry_noOkCheck(o) ==
    IF o.kind = "throws" \/ o.json.parse # "object"
    THEN [threw |-> TRUE]
    ELSE LET data == o.json.data
         IN  IF Has(data, "status") /\ data.status = "done"
             THEN IF Has(data, "result")
                  THEN [done |-> TRUE, status |-> "done", result |-> data.result]
                  ELSE [done |-> TRUE, status |-> "done"]
             ELSE IF Has(data, "status") /\ data.status = "error"
             THEN [done |-> TRUE, status |-> "error",
                   error |-> IF Has(data, "error") /\ Has(data.error, "message")
                             THEN data.error.message
                             ELSE "Unknown error"]
             ELSE StillRunning

\* the try block: what it returns, or [threw |-> TRUE] when fetch rejects,
\* res.json() rejects, or data is null (data.status is a TypeError)
pollTry(o) ==
    IF o.kind = "throws"
    THEN [threw |-> TRUE]
    ELSE IF ~o.ok
    THEN StillRunning
    ELSE IF o.json.parse # "object"
    THEN [threw |-> TRUE]
    ELSE LET data == o.json.data
         IN  IF Has(data, "status") /\ data.status = "done"
             THEN IF Has(data, "result")
                  THEN [done |-> TRUE, status |-> "done", result |-> data.result]
                  ELSE [done |-> TRUE, status |-> "done"]
             ELSE IF Has(data, "status") /\ data.status = "error"
             THEN [done |-> TRUE, status |-> "error",
                   error |-> IF Has(data, "error") /\ Has(data.error, "message")
                             THEN data.error.message
                             ELSE "Unknown error"]
             ELSE StillRunning

\* a poll whose exceptions reach the caller
pollAgentStatus_uncaught(o) == pollTry(o)

\* try { ... } catch { still running }
pollAgentStatus(o) ==
    LET t == pollTry(o)
    IN  IF Has(t, "threw") THEN StillRunning ELSE t

\* ------------------------------------------------------- dispatchToAgent
\* JSON.stringify of the API error
Stringify(e) == <<"json", e>>

\* a dispatch that accepts any response carrying a job_id
dispatchToAgent_noStartedCheck(o) ==
    IF o.kind = "throws"
    THEN [success |-> FALSE,
          error |-> IF o.thrown.isError THEN o.thrown.message
                                        ELSE "Dispatch failed"]
    ELSE IF o.error # <<>>
    THEN [success |-> FALSE, error |-> Stringify(o.error[1])]
    ELSE IF o.data # <<>> /\ Has(o.data[1], "error") /\ Has(o.data[1], "status")
            /\ o.data[1].status = "rejected"
    THEN [success |-> FALSE, error |-> o.data[1].error]
    ELSE IF o.data # <<>> /\ Has(o.data[1], "job_id")
    THEN [success |-> TRUE, sub_job_id |-> o.data[1].job_id]
    ELSE [success |-> FALSE, error |-> "Unexpected response from Arke"]

dispatchToAgent(o) ==
    IF o.kind = "throws"
    THEN [success |-> FALSE,
          error |-> IF o.thrown.isError THEN o.thrown.message
                                        ELSE "Dispatch failed"]
    ELSE IF o.error # <<>>
    THEN [success |-> FALSE, error |-> Stringify(o.error[1])]
    ELSE IF o.data # <<>> /\ Has(o.data[1], "error") /\ Has(o.data[1], "status")
            /\ o.data[1].status = "rejected"
    THEN [success |-> FALSE, error |-> o.data[1].error]
    ELSE IF o.data # <<>> /\ Has(o.data[1], "job_id") /\ Has(o.data[1], "status")
            /\ o.data[1].status = "started"
    THEN [success |-> TRUE, sub_job_id |-> o.data[1].job_id]
    ELSE [success |-> FALSE, error |-> "Unexpected response from Arke"]

\* ---------------------------------------------------- dispatcher actions
untilVars == <<wall, uPc, uArgs, uStart, uBegin, uLastEnd, uLast, uResult>>

\* one call of pollAgentStatus against a remote that does o
callPollAgentStatus ==
    /\ \E o \in PollOutcomes :
         /\ dIn' = o
         /\ dOut' = pollAgentStatus(o)
    /\ dOp' = "pollAgentStatus"
    /\ UNCHANGED untilVars
    /\ DispatcherStep

\* one call of dispatchToAgent against an API that does o
callDispatchToAgent ==
    /\ \E o \in DispatchOutcomes :
         /\ dIn' = o
         /\ dOut' = dispatchToAgent(o)
    /\ dOp' = "dispatchToAgent"
    /\ UNCHANGED untilVars
    /\ DispatcherStep

TimeoutResult ==
    [done |-> FALSE, status |-> "error", error |-> "Polling timeout exceeded"]

\* pollAgentStatusUntilDone is called: startTime = Date.now()
untilCall ==
    /\ uPc = "idle"
    /\ \E i \in PollIntervals, t \in PollTimeouts :
         uArgs' = [pollIntervalMs |-> i, timeoutMs |-> t]
    /\ uStart' = wall
    /\ uPc' = "check"
    /\ UNCHANGED <<dOp, dIn, dOut, wall, uBegin, uLastEnd, uLast, uResult>>
    /\ DispatcherStep

\* the while condition: start a poll, or leave the loop with the timeout result
untilCheck ==
    /\ uPc = "check"
    /\ IF wall - uStart < uArgs.timeoutMs
       THEN /\ uPc' = "poll"
            /\ uBegin' = wall
            /\ UNCHANGED uResult
       ELSE /\ uPc' = "returned"
            /\ uResult' = <<TimeoutResult>>
            /\ UNCHANGED uBegin
    /\ UNCHANGED <<dOp, dIn, dOut, wall, uArgs, uStart, uLastEnd, uLast>>
    /\ DispatcherStep

\* a loop that leaves only on status 'done'
untilPoll_doneOnly ==
    /\ uPc = "poll"
    /\ \E o \in PollOutcomes, latency \in PollLatencies :
         LET result == pollAgentStatus(o)
         IN  /\ wall' = wall + latency
             /\ uLastEnd' = wall + latency
             /\ uLast' = <<result>>
             /\ IF result.status = "done"
                THEN uPc' = "returned" /\ uResult' = <<result>>
                ELSE uPc' = "sleep" /\ UNCHANGED uResult
    /\ UNCHANGED <<dOp, dIn, dOut, uArgs, uStart, uBegin>>
    /\ DispatcherStep

\* await pollAgentStatus, which takes some time; return its result if done
untilPoll ==
    /\ uPc = "poll"
    /\ \E o \in PollOutcomes, latency \in PollLatencies :
         LET result == pollAgentStatus(o)
         IN  /\ wall' = wall + latency
             /\ uLastEnd' = wall + latency
             /\ uLast' = <<result>>
             /\ IF result.done
                THEN uPc' = "returned" /\ uResult' = <<result>>
                ELSE uPc' = "sleep" /\ UNCHANGED uResult
    /\ UNCHANGED <<dOp, dIn, dOut, uArgs, uStart, uBegin>>
    /\ DispatcherStep

\* await sleep(pollIntervalMs): the timer fires no earlier than asked
untilSleep ==
    /\ uPc = "sleep"
    /\ \E extra \in SleepOvershoots :
         wall' = wall + uArgs.pollIntervalMs + extra
    /\ uPc' = "check"
    /\ UNCHANGED <<dOp, dIn, dOut, uArgs, uStart, uBegin, uLastEnd, uLast,
                   uResult>>
    /\ DispatcherStep

\* await pollAgentStatus where fetch(statusUrl), called without a timeout or
\* an abort signal, never settles: the loop is suspended for good
untilPollHangs ==
    /\ uPc = "poll"
    /\ uPc' = "hung"
    /\ UNCHANGED <<dOp, dIn, dOut, wall, uArgs, uStart, uBegin, uLastEnd, uLast,
                   uResult>>
    /\ DispatcherStep

NextDispatcher ==
    \/ callPollAgentStatus
    \/ callDispatchToAgent
    \/ untilCall
    \/ untilCheck
    \/ untilPoll
    \/ untilPollHangs
    \/ untilSleep

SpecDispatcher == Init /\ [][NextDispatcher]_vars

\* the event loop runs every continuation and timer that is ready
DispatcherFairness ==
    /\ WF_vars(untilCheck)
    /\ WF_vars(untilPoll)
    /\ WF_vars(untilSleep)

SpecDispatcherLive == Init /\ [][NextDispatcher]_vars /\ DispatcherFairness

\* ================================================ dispatcher.ts: PromisePool
\* A unit is "new" (not submitted), "queued" (its wrapper is in the queue),
\* "executing" (fn() was called, its promise is pending), "ok" or "failed"
\* (fn()'s promise settled, the code awaiting it has not resumed yet),
\* "wrapped_ok" or "wrapped_failed" (a queued unit whose wrapper has resumed,
\* the .finally callback of runNext has not run yet), "done_ok" or
\* "done_failed" (its slot was released).
Holding == {"executing", "ok", "failed", "wrapped_ok", "wrapped_failed"}

\* new PromisePool(concurrency)
poolNew ==
    /\ concurrency = 0
    /\ \E k \in 1..MaxConcurrency : concurrency' = k
    /\ UNCHANGED <<running, queue, unit, path, addPromise, submitted,
                   started, drain>>
    /\ PoolStep

\* an add() that queues only above the ceiling
add_offByOne ==
    /\ concurrency > 0
    /\ submitted < MaxUnits
    /\ LET u == submitted + 1
       IN  /\ submitted' = u
           /\ addPromise' = [addPromise EXCEPT ![u] = "pending"]
           /\ IF running > concurrency
              THEN /\ queue' = Append(queue, u)
                   /\ unit' = [unit EXCEPT ![u] = "queued"]
                   /\ path' = [path EXCEPT ![u] = "queued"]
                   /\ UNCHANGED <<running, started>>
              ELSE /\ running' = running + 1
                   /\ unit' = [unit EXCEPT ![u] = "executing"]
                   /\ path' = [path EXCEPT ![u] = "direct"]
                   /\ started' = Append(started, u)
                   /\ UNCHANGED queue
    /\ UNCHANGED <<concurrency, drain>>
    /\ PoolStep

\* add(fn) up to its first await: queue the wrapper, or take a slot and call fn()
add ==
    /\ concurrency > 0
    /\ submitted < MaxUnits
    /\ LET u == submitted + 1
       IN  /\ submitted' = u
           /\ addPromise' = [addPromise EXCEPT ![u] = "pending"]
           /\ IF running >= concurrency
              THEN /\ queue' = Append(queue, u)
                   /\ unit' = [unit EXCEPT ![u] = "queued"]
                   /\ path' = [path EXCEPT ![u] = "queued"]
                   /\ UNCHANGED <<running, started>>
              ELSE /\ running' = running + 1
                   /\ unit' = [unit EXCEPT ![u] = "executing"]
                   /\ path' = [path EXCEPT ![u] = "direct"]
                   /\ started' = Append(started, u)
                   /\ UNCHANGED queue
    /\ UNCHANGED <<concurrency, drain>>
    /\ PoolStep

\* the promise of a unit's fn() settles: fulfilled or rejected
settle(u) ==
    /\ unit[u] = "executing"
    /\ \E outcome \in {"ok", "failed"} : unit' = [unit EXCEPT ![u] = outcome]
    /\ UNCHANGED <<concurrency, running, queue, path, addPromise, submitted,
                   started, drain>>
    /\ PoolStep

\* a runNext that keeps one slot in reserve
runNext_idleSlot(r, q) ==
    IF Len(q) > 0 /\ r + 1 < concurrency
    THEN [running |-> r + 1, queue |-> Tail(q), next |-> <<Head(q)>>]
    ELSE [running |-> r, queue |-> q, next |-> <<>>]

\* a runNext that empties the queue when it takes the head
runNext_clearQueue(r, q) ==
    IF Len(q) > 0 /\ r < concurrency
    THEN [running |-> r + 1, queue |-> <<>>, next |-> <<Head(q)>>]
    ELSE [running |-> r, queue |-> q, next |-> <<>>]

\* a runNext that takes the newest queued unit
runNext_newestFirst(r, q) ==
    IF Len(q) > 0 /\ r < concurrency
    THEN [running |-> r + 1, queue |-> SubSeq(q, 1, Len(q) - 1),
          next |-> <<q[Len(q)]>>]
    ELSE [running |-> r, queue |-> q, next |-> <<>>]

\* runNext() with running = r and queue = q: the new running and queue, and
\* <<the unit whose wrapper was called>> or <<>>
runNext(r, q) ==
    IF Len(q) > 0 /\ r < concurrency
    THEN [running |-> r + 1, queue |-> Tail(q), next |-> <<Head(q)>>]
    ELSE [running |-> r, queue |-> q, next |-> <<>>]

\* running--; runNext() on behalf of unit u, whose status becomes final
release(u, final) ==
    LET rn == runNext(running - 1, queue)
    IN  /\ running' = rn.running
        /\ queue' = rn.queue
        /\ started' = started \o rn.next
        /\ unit' = [v \in Units |->
                      IF v = u THEN final
                      ELSE IF rn.next = <<v>> THEN "executing"
                      ELSE unit[v]]

\* an add() whose cleanup runs after a fulfilled fn() only (no finally)
directFinally_successOnly(u) ==
    /\ path[u] = "direct"
    /\ unit[u] \in {"ok", "failed"}
    /\ IF unit[u] = "ok"
       THEN release(u, "done_ok")
       ELSE /\ unit' = [unit EXCEPT ![u] = "done_failed"]
            /\ UNCHANGED <<running, queue, started>>
    /\ addPromise' = [addPromise EXCEPT
                        ![u] = IF unit[u] = "ok" THEN "resolved" ELSE "rejected"]
    /\ UNCHANGED <<concurrency, path, submitted, drain>>
    /\ PoolStep

\* add(), direct path: the finally block after await fn(), then add() settles
directFinally(u) ==
    /\ path[u] = "direct"
    /\ unit[u] \in {"ok", "failed"}
    /\ release(u, IF unit[u] = "ok" THEN "done_ok" ELSE "done_failed")
    /\ addPromise' = [addPromise EXCEPT
                        ![u] = IF unit[u] = "ok" THEN "resolved" ELSE "rejected"]
    /\ UNCHANGED <<concurrency, path, submitted, drain>>
    /\ PoolStep

\* a wrapper that calls resolve() whatever fn() did
wrapperResume_alwaysResolve(u) ==
    /\ path[u] = "queued"
    /\ unit[u] \in {"ok", "failed"}
    /\ unit' = [unit EXCEPT
                  ![u] = IF unit[u] = "ok" THEN "wrapped_ok" ELSE "wrapped_failed"]
    /\ addPromise' = [addPromise EXCEPT ![u] = "resolved"]
    /\ UNCHANGED <<concurrency, running, queue, path, submitted, started, drain>>
    /\ PoolStep

\* the queued wrapper after await fn(): resolve() if fn() fulfilled, else the
\* wrapper rejects and resolve() is never called
wrapperResume(u) ==
    /\ path[u] = "queued"
    /\ unit[u] \in {"ok", "failed"}
    /\ unit' = [unit EXCEPT
                  ![u] = IF unit[u] = "ok" THEN "wrapped_ok" ELSE "wrapped_failed"]
    /\ addPromise' = [addPromise EXCEPT
                        ![u] = IF unit[u] = "ok" THEN "resolved" ELSE @]
    /\ UNCHANGED <<concurrency, running, queue, path, submitted, started, drain>>
    /\ PoolStep

\* runNext(): the .finally callback on the wrapper's promise
queuedFinally(u) ==
    /\ path[u] = "queued"
    /\ unit[u] \in {"wrapped_ok", "wrapped_failed"}
    /\ release(u, IF unit[u] = "wrapped_ok" THEN "done_ok" ELSE "done_failed")
    /\ UNCHANGED <<concurrency, path, addPromise, submitted, drain>>
    /\ PoolStep

\* the loop condition of drain()
drainBusy == running > 0 \/ Len(queue) > 0

\* drain() is called: it returns at once or goes to sleep(100)
drainCall ==
    /\ concurrency > 0
    /\ drain = "none"
    /\ drain' = IF drainBusy THEN "waiting" ELSE "resolved_at_once"
    /\ UNCHANGED <<concurrency, running, queue, unit, path, addPromise,
                   submitted, started>>
    /\ PoolStep

\* a drain() that looks at the queue only
drainWake_queueOnly ==
    /\ drain = "waiting"
    /\ ~(Len(queue) > 0)
    /\ drain' = "resolved"
    /\ UNCHANGED <<concurrency, running, queue, unit, path, addPromise,
                   submitted, started>>
    /\ PoolStep

\* drain() wakes from sleep(100) and finds the pool idle (when it finds it
\* busy it sleeps again, which changes nothing)
drainWake ==
    /\ drain = "waiting"
    /\ ~drainBusy
    /\ drain' = "resolved"
    /\ UNCHANGED <<concurrency, running, queue, unit, path, addPromise,
                   submitted, started>>
    /\ PoolStep

NextPool ==
    \/ poolNew
    \/ add
    \/ \E u \in Units : settle(u)
    \/ \E u \in Units : directFinally(u)
    \/ \E u \in Units : wrapperResume(u)
    \/ \E u \in Units : queuedFinally(u)
    \/ drainCall
    \/ drainWake

SpecPool == Init /\ [][NextPool]_vars

\* the event loop runs every continuation and timer that is ready, and every
\* unit that was started settles
PoolFairness ==
    /\ \A u \in Units : WF_vars(settle(u))
    /\ \A u \in Units : WF_vars(directFinally(u))
    /\ \A u \in Units : WF_vars(wrapperResume(u))
    /\ \A u \in Units : WF_vars(queuedFinally(u))
    /\ WF_vars(drainWake)

SpecPoolLive == Init /\ [][NextPool]_vars /\ PoolFairness

\* ============================================ logger: the collection writer
\* One call of writeJobLog per writer w; the file it creates has id w.
\* Version tokens are opaque and never reused, so the token a writer holds is
\* modelled by whether it still is the collection's tip.
LoggerVariants == {10, 5}
CreateOutcomes == {"created", "error", "throw", "hang"}
TipOutcomes == {"tip", "none", "throw", "hang"}
\* JSON.stringify(updateError) of rejections that are no CAS conflict; the
\* second one carries a request id with the digits 409 in it
OtherRejections == {"403 Forbidden", "403 Forbidden (request r-4091)"}
\* what a PUT does: the remote's CAS verdict, another rejection, an exception,
\* or no answer at all
UpdateOutcomes == {"answer", "throw", "hang"} \cup OtherRejections

\* errorStr.includes(pat) for the rejections the model draws
includes(errorStr, pat) ==
    <<errorStr, pat>> \in {<<"409 Conflict", "409">>,
                           <<"409 Conflict", "Conflict">>,
                           <<"403 Forbidden (request r-4091)", "409">>}

\* a conflict test that looks for another status code
IsConflict_wrongCode(errorStr) ==
    includes(errorStr, "412")

\* the CAS-conflict test on JSON.stringify(updateError)
IsConflict(errorStr) ==
    \/ includes(errorStr, "409")
    \/ includes(errorStr, "Conflict")
    \/ wMax = 10 /\ (includes(errorStr, "cas") \/ includes(errorStr, "expect_tip"))

\* a PUT body that sends the whole relationship list
putBody_replace(w) ==
    [expect_tip |-> wCid[w], relationships |-> {w}]

\* the body of PUT /collections/{id}
putBody(w) ==
    [expect_tip |-> wCid[w], relationships_add |-> {w}]

\* remote: the 'contains' peers after an accepted update
serverApply(body) ==
    IF Has(body, "relationships") THEN body.relationships
    ELSE contains \cup body.relationships_add

\* a writeJobLog that forgets the file id when the update failed
writeJobLogReturn_noFileId(fileId, updateResult) ==
    IF ~updateResult.success
    THEN [success |-> FALSE, error |-> updateResult.error]
    ELSE [success |-> TRUE, fileId |-> fileId]

\* writeJobLog after updateCollectionWithContains returned
writeJobLogReturn(fileId, updateResult) ==
    IF ~updateResult.success
    THEN [success |-> FALSE, fileId |-> fileId, error |-> updateResult.error]
    ELSE [success |-> TRUE, fileId |-> fileId]

\* a loop that runs while attempt <= maxRetries
nextAttempt_offByOne(w) ==
    IF wAttempt[w] + 1 <= wMax
    THEN /\ wAttempt' = [wAttempt EXCEPT ![w] = @ + 1]
         /\ wPc' = [wPc EXCEPT ![w] = "read"]
         /\ UNCHANGED wResult
    ELSE /\ wAttempt' = [wAttempt EXCEPT ![w] = @ + 1]
         /\ wPc' = [wPc EXCEPT ![w] = "done"]
         /\ wResult' = [wResult EXCEPT ![w] = <<writeJobLogReturn(w,
                          [success |-> FALSE, error |-> "Max retries exceeded"])>>]

\* continue / fall out of the catch block: the next iteration, or the end of
\* the loop
nextAttempt(w) ==
    IF wAttempt[w] + 1 < wMax
    THEN /\ wAttempt' = [wAttempt EXCEPT ![w] = @ + 1]
         /\ wPc' = [wPc EXCEPT ![w] = "read"]
         /\ UNCHANGED wResult
    ELSE /\ wAttempt' = [wAttempt EXCEPT ![w] = @ + 1]
         /\ wPc' = [wPc EXCEPT ![w] = "done"]
         /\ wResult' = [wResult EXCEPT ![w] = <<writeJobLogReturn(w,
                          [success |-> FALSE, error |-> "Max retries exceeded"])>>]

\* a loop that goes on after an accepted update
finish_keepGoing(w, updateResult) ==
    IF updateResult.success
    THEN nextAttempt(w)
    ELSE /\ wPc' = [wPc EXCEPT ![w] = "done"]
         /\ wResult' = [wResult EXCEPT
                          ![w] = <<writeJobLogReturn(w, updateResult)>>]
         /\ UNCHANGED wAttempt

\* updateCollectionWithContains returns updateResult to writeJobLog
finish(w, updateResult) ==
    /\ wPc' = [wPc EXCEPT ![w] = "done"]
    /\ wResult' = [wResult EXCEPT ![w] = <<writeJobLogReturn(w, updateResult)>>]
    /\ UNCHANGED wAttempt

\* an error branch that retries whatever the rejection says
afterUpdateError_retryAll(w, errorStr) ==
    IF wAttempt[w] < wMax - 1
    THEN nextAttempt(w)
    ELSE finish(w, [success |-> FALSE, error |-> "Failed to update collection"])

\* if (updateError) { ... }
afterUpdateError(w, errorStr) ==
    IF IsConflict(errorStr) /\ wAttempt[w] < wMax - 1
    THEN nextAttempt(w)
    ELSE finish(w, [success |-> FALSE, error |-> "Failed to update collection"])

\* a remote call that never answers
hang(w) ==
    /\ wPc' = [wPc EXCEPT ![w] = "hung"]
    /\ UNCHANGED <<wAttempt, wResult>>

\* a writeJobLog without its catch block
caught_rethrow(w) ==
    /\ wPc' = [wPc EXCEPT ![w] = "threw"]
    /\ UNCHANGED <<wAttempt, wResult>>

\* the catch block of writeJobLog
caught(w) ==
    /\ wPc' = [wPc EXCEPT ![w] = "done"]
    /\ wResult' = [wResult EXCEPT
                     ![w] = <<[success |-> FALSE, error |-> "err.message"]>>]
    /\ UNCHANGED wAttempt

\* the logger module is loaded: the current one or the legacy one
loggerDeploy ==
    /\ wMax = 0
    /\ \E v \in LoggerVariants : wMax' = v
    /\ UNCHANGED <<wPc, wAttempt, wCid, wReads, wCreates, wResult, files,
                   contains, disturbed>>
    /\ WriterStep

\* writeJobLog(client, jobCollection, log) up to the call of
\* updateCollectionWithContains and its initial delay
writeJobLog(w) ==
    /\ wMax > 0
    /\ wPc[w] = "idle"
    /\ wCreates' = [wCreates EXCEPT ![w] = @ + 1]
    /\ \E outcome \in CreateOutcomes :
         /\ files' = IF outcome = "created" THEN files \cup {w} ELSE files
         /\ disturbed' = (disturbed \/ outcome # "created")
         /\ CASE outcome = "created" ->
                   /\ wPc' = [wPc EXCEPT ![w] = "read"]
                   /\ UNCHANGED <<wAttempt, wResult>>
              [] outcome = "error" ->
                   /\ wPc' = [wPc EXCEPT ![w] = "done"]
                   /\ wResult' = [wResult EXCEPT ![w] =
                        <<[success |-> FALSE,
                           error |-> "Failed to create log file"]>>]
                   /\ UNCHANGED wAttempt
              [] outcome = "throw" -> caught(w)
              [] outcome = "hang" -> hang(w)
    /\ UNCHANGED <<wMax, wCid, wReads, contains>>
    /\ WriterStep

\* a loop that reads the tip in its first attempt only
readTipWith_cached(w, outcome) ==
    /\ wPc[w] = "read"
    /\ IF wAttempt[w] > 0
       THEN /\ wCid' = [wCid EXCEPT ![w] = "stale"]
            /\ wPc' = [wPc EXCEPT ![w] = "put"]
            /\ UNCHANGED <<wReads, wAttempt, wResult, disturbed>>
       ELSE /\ wReads' = [wReads EXCEPT ![w] = @ + 1]
            /\ disturbed' = (disturbed \/ outcome # "tip")
            /\ wCid' = [wCid EXCEPT ![w] = IF outcome = "tip" THEN "tip" ELSE "none"]
            /\ CASE outcome = "tip" ->
                      /\ wPc' = [wPc EXCEPT ![w] = "put"]
                      /\ UNCHANGED <<wAttempt, wResult>>
                 [] outcome = "none" ->
                      finish(w, [success |-> FALSE,
                                 error |-> "Job collection not found"])
                 [] outcome = "throw" -> nextAttempt(w)
                 [] outcome = "hang" -> hang(w)
    /\ UNCHANGED <<wMax, wCreates, files, contains>>
    /\ WriterStep

\* one GET of the collection's tip that does outcome, and what the loop does
\* with it
readTipWith(w, outcome) ==
    /\ wPc[w] = "read"
    /\ wReads' = [wReads EXCEPT ![w] = @ + 1]
    /\ disturbed' = (disturbed \/ outcome # "tip")
    /\ wCid' = [wCid EXCEPT ![w] = IF outcome = "tip" THEN "tip" ELSE "none"]
    /\ CASE outcome = "tip" ->
              /\ wPc' = [wPc EXCEPT ![w] = "put"]
              /\ UNCHANGED <<wAttempt, wResult>>
         [] outcome = "none" ->
              finish(w, [success |-> FALSE,
                         error |-> "Job collection not found"])
         [] outcome = "throw" -> nextAttempt(w)
         [] outcome = "hang" -> hang(w)
    /\ UNCHANGED <<wMax, wCreates, files, contains>>
    /\ WriterStep

readTip(w) ==
    \E outcome \in TipOutcomes : readTipWith(w, outcome)

\* one conditional PUT that does outcome (for "answer": the remote accepts it
\* if the token is its tip and answers 409 Conflict if not), and what the
\* loop does with it
updateWith(w, outcome) ==
    /\ wPc[w] = "put"
    /\ LET body == putBody(w)
           accepted == outcome = "answer" /\ body.expect_tip = "tip"
       IN  /\ disturbed' = (disturbed \/ outcome # "answer")
           /\ contains' = IF accepted THEN serverApply(body) ELSE contains
           /\ wCid' = [v \in Writers |->
                         IF v = w THEN "none"
                         ELSE IF accepted /\ wCid[v] = "tip" THEN "stale"
                         ELSE wCid[v]]
           /\ CASE outcome = "answer" ->
                     IF accepted
                     THEN finish(w, [success |-> TRUE])
                     ELSE afterUpdateError(w, "409 Conflict")
                [] outcome \in OtherRejections -> afterUpdateError(w, outcome)
                [] outcome = "throw" -> nextAttempt(w)
                [] outcome = "hang" -> hang(w)
    /\ UNCHANGED <<wMax, wReads, wCreates, files>>
    /\ WriterStep

conditionalUpdate(w) ==
    \E outcome \in UpdateOutcomes : updateWith(w, outcome)

\* remote: somebody else updates the collection, which moves its tip
foreignUpdate ==
    /\ \E w \in Writers : wCid[w] = "tip"
    /\ wCid' = [w \in Writers |-> IF wCid[w] = "tip" THEN "stale" ELSE wCid[w]]
    /\ disturbed' = TRUE
    /\ UNCHANGED <<wMax, wPc, wAttempt, wReads, wCreates, wResult, files,
                   contains>>
    /\ WriterStep

NextWriter ==
    \/ loggerDeploy
    \/ \E w \in Writers : writeJobLog(w)
    \/ \E w \in Writers : readTip(w)
    \/ \E w \in Writers : conditionalUpdate(w)
    \/ foreignUpdate

SpecWriter == Init /\ [][NextWriter]_vars

\* every remote call that is going to answer does answer
WriterFairness ==
    /\ \A w \in Writers : WF_vars(readTip(w))
    /\ \A w \in Writers : WF_vars(conditionalUpdate(w))

SpecWriterLive == Init /\ [][NextWriter]_vars /\ WriterFairness

\* ================================================== router.ts: POST /process
\* A request and its circumstances: whether the X-Arke-Signature header is
\* there, what JSON.parse does with the body, what verifyArkeSignature
\* answers, whether env.ARKE_API_KEY is set and what config.preProcess does.
RequestBodies ==
    {[parse |-> "invalid"], [parse |-> "null"]}
      \cup {[parse |-> "object",
             data |-> Opt("job_id", j # "absent", j) @@ Opt("target", t, "e1")
                        @@ Opt("job_collection", c, "col1")] :
              j \in {"absent", "", JobId}, t \in BOOLEAN, c \in BOOLEAN}

\* verify.ts is not part of the sources at hand: verifyArkeSignature answers
\* { valid, error? } (router.ts:109-119) or throws
VerifyOutcomes ==
    {[kind |-> "valid"], [kind |-> "invalid", error |-> <<>>],
     [kind |-> "invalid", error |-> <<"bad signature">>], [kind |-> "throws"]}

PreProcessOutcomes == {"absent", "returns", "throwsError", "throwsOther"}
\* what stub.fetch('https://do/start') does
ActorOutcomes == {"accepts", "rejects", "status500", "throws"}

RouterInputs ==
    [header : BOOLEAN, body : RequestBodies, verify : VerifyOutcomes,
     apiKey : BOOLEAN, pre : PreProcessOutcomes]

\* what the framework answers when the handler throws
Unhandled == [status |-> 500, body |-> [unhandled |-> TRUE]]

Reject(status, error) ==
    [status |-> status, body |-> [accepted |-> FALSE, error |-> error]]

\* !jobRequest[k]
Missing(data, k) == ~Has(data, k) \/ data[k] = ""

\* steps 2 to 5 without the API key test
routerChecks_noKeyCheck(i) ==
    IF ~i.header THEN <<Reject(401, "Missing signature header")>>
    ELSE IF i.body.parse = "invalid" THEN <<Reject(400, "Invalid JSON body")>>
    ELSE IF i.body.parse = "null" \/ i.verify.kind = "throws" THEN <<Unhandled>>
    ELSE IF i.verify.kind # "valid"
    THEN <<Reject(401, IF i.verify.error # <<>> THEN i.verify.error[1]
                       ELSE "Invalid signature")>>
    ELSE IF \/ Missing(i.body.data, "job_id")
            \/ Missing(i.body.data, "target")
            \/ Missing(i.body.data, "job_collection")
    THEN <<Reject(400, "Missing required fields")>>
    ELSE IF i.pre = "throwsError" THEN <<Reject(400, "err.message")>>
    ELSE IF i.pre = "throwsOther" THEN <<Reject(400, "Pre-processing failed")>>
    ELSE <<>>

\* steps 2 to 5 of POST /process: <<the response returned early>>, or <<>>
\* when the handler goes on to the actor
routerChecks(i) ==
    IF ~i.header THEN <<Reject(401, "Missing signature header")>>
    ELSE IF i.body.parse = "invalid" THEN <<Reject(400, "Invalid JSON body")>>
    ELSE IF i.body.parse = "null" \/ i.verify.kind = "throws" THEN <<Unhandled>>
    ELSE IF i.verify.kind # "valid"
    THEN <<Reject(401, IF i.verify.error # <<>> THEN i.verify.error[1]
                       ELSE "Invalid signature")>>
    ELSE IF \/ Missing(i.body.data, "job_id")
            \/ Missing(i.body.data, "target")
            \/ Missing(i.body.data, "job_collection")
    THEN <<Reject(400, "Missing required fields")>>
    ELSE IF ~i.apiKey
    THEN <<[status |-> 503,
            body |-> [accepted |-> FALSE, error |-> "Agent not configured",
                      retry_after |-> 60]]>>
    ELSE IF i.pre = "throwsError" THEN <<Reject(400, "err.message")>>
    ELSE IF i.pre = "throwsOther" THEN <<Reject(400, "Pre-processing failed")>>
    ELSE <<>>

\* one POST /process; a forwarded start runs the actor's fetch() with action
\* 'start' (handleStart as in the README example)
routerProcess ==
    /\ rCalls < MaxRequests
    /\ pc = "idle"
    /\ rCalls' = rCalls + 1
    /\ \E i \in RouterInputs :
         LET early == routerChecks(i)
         IN  /\ rIn' = <<i>>
             /\ IF early # <<>>
                THEN /\ rResp' = early
                     /\ UNCHANGED <<rSent, kv, alarms>>
                ELSE /\ rSent' = rSent + 1
                     /\ \E actor \in ActorOutcomes :
                        CASE actor = "accepts" ->
                               /\ kv' = saveState(kv, initialState(JobId, now), now)
                               /\ alarms' = scheduleImmediateAlarm(alarms, now)
                               /\ rResp' = <<[status |-> 200,
                                              body |-> [accepted |-> TRUE,
                                                        job_id |-> JobId]]>>
                          [] actor = "rejects" ->
                               /\ rResp' = <<[status |-> 200,
                                              body |-> [accepted |-> FALSE,
                                                        error |-> "rejected"]]>>
                               /\ UNCHANGED <<kv, alarms>>
                          [] actor = "status500" ->
                               /\ rResp' = <<[status |-> 400,
                                              body |-> [error |-> "Internal error"]]>>
                               /\ UNCHANGED <<kv, alarms>>
                          [] actor = "throws" ->
                               /\ rResp' = <<Reject(500, "err.message")>>
                               /\ UNCHANGED <<kv, alarms>>
    /\ UNCHANGED <<throws, now, ticks, pc, st, ast, calls, lastOp, resp, pre, lastWrite,
                   armed, reads>>
    /\ RouterStep

NextRouter ==
    \/ routerProcess

SpecRouter == Init /\ [][NextRouter]_vars

\* ========================================================= utils.ts: withRetry
\* maxRetries as passed (<<>>: omitted), baseDelayMs as passed
RetryCounts == {<<>>} \cup {<<n>> : n \in -1..MaxRetriesArg}
BaseDelays == {<<>>, <<100>>}
Jitters == {0, 99}

\* what a call of fn does: fulfils with a value, or rejects with an Error or
\* with something that is no Error
FnOutcomes ==
    {[kind |-> "value", value |-> v] : v \in {"v1", "v2"}}
      \cup {[kind |-> "error", isError |-> TRUE, message |-> "e1"],
            [kind |-> "error", isError |-> TRUE, message |-> "e2"],
            [kind |-> "error", isError |-> FALSE, text |-> "s1"]}

\* err instanceof Error ? err : new Error(String(err))
toError(o) ==
    IF o.isError THEN [message |-> o.message, wrapped |-> FALSE]
    ELSE [message |-> o.text, wrapped |-> TRUE]

\* 2^n
Pow2(n) == IF n = 0 THEN 1 ELSE IF n = 1 THEN 2 ELSE IF n = 2 THEN 4
           ELSE IF n = 3 THEN 8 ELSE 16

\* throw lastError ?? new Error('Retry failed')
retryThrow(lastError) ==
    /\ tPc' = "threw"
    /\ tResult' = IF lastError # <<>> THEN lastError
                  ELSE <<[message |-> "Retry failed", wrapped |-> FALSE]>>

\* withRetry(fn, maxRetries = 3, baseDelayMs = 1000) up to the first call of fn
retryCall ==
    /\ tPc = "idle"
    /\ \E n \in RetryCounts, b \in BaseDelays :
         LET args == [maxRetries |-> IF n = <<>> THEN 3 ELSE n[1],
                      baseDelayMs |-> IF b = <<>> THEN 1000 ELSE b[1]]
         IN  /\ tArgs' = <<args>>
             /\ IF 0 < args.maxRetries
                THEN /\ tPc' = "call"
                     /\ UNCHANGED tResult
                ELSE retryThrow(<<>>)
    /\ UNCHANGED <<tAttempt, tLastError, tLog, tSleeps>>
    /\ RetryStep

\* a catch block that sleeps after every failed call
retryFn_sleepAlways ==
    /\ tPc = "call"
    /\ \E o \in FnOutcomes, jitter \in Jitters :
         /\ tLog' = Append(tLog, o)
         /\ IF o.kind = "value"
            THEN /\ tPc' = "returned"
                 /\ tResult' = <<o.value>>
                 /\ UNCHANGED <<tLastError, tSleeps>>
            ELSE /\ tLastError' = <<toError(o)>>
                 /\ tPc' = "sleep"
                 /\ tSleeps' = Append(tSleeps,
                       tArgs[1].baseDelayMs * Pow2(tAttempt) + jitter)
                 /\ UNCHANGED tResult
    /\ UNCHANGED <<tArgs, tAttempt>>
    /\ RetryStep

\* return await fn(), and the catch block up to its sleep
retryFn ==
    /\ tPc = "call"
    /\ \E o \in FnOutcomes, jitter \in Jitters :
         /\ tLog' = Append(tLog, o)
         /\ IF o.kind = "value"
            THEN /\ tPc' = "returned"
                 /\ tResult' = <<o.value>>
                 /\ UNCHANGED <<tLastError, tSleeps>>
            ELSE /\ tLastError' = <<toError(o)>>
                 /\ IF tAttempt < tArgs[1].maxRetries - 1
                    THEN /\ tPc' = "sleep"
                         /\ tSleeps' = Append(tSleeps,
                               tArgs[1].baseDelayMs * Pow2(tAttempt) + jitter)
                    ELSE /\ tPc' = "caught"
                         /\ UNCHANGED tSleeps
                 /\ UNCHANGED tResult
    /\ UNCHANGED <<tArgs, tAttempt>>
    /\ RetryStep

\* attempt++ and the loop condition, after the sleep or straight from the
\* catch block
retryLoop ==
    /\ tPc \in {"sleep", "caught"}
    /\ tAttempt' = tAttempt + 1
    /\ IF tAttempt + 1 < tArgs[1].maxRetries
       THEN /\ tPc' = "call"
            /\ UNCHANGED tResult
       ELSE retryThrow(tLastError)
    /\ UNCHANGED <<tArgs, tLastError, tLog, tSleeps>>
    /\ RetryStep

NextRetry ==
    \/ retryCall
    \/ retryFn
    \/ retryLoop

SpecRetry == Init /\ [][NextRetry]_vars

\* ================================================================ claims
HasState == STATE_KEY \in DOMAIN kv
job == kv[STATE_KEY]
AlarmEntryOps == {"alarm_nostate", "alarm_skip", "alarm_begin"}
WakeEndOps == {"alarm_true", "alarm_false", "alarm_throw"}
Payload(state) ==
    [k \in (DOMAIN state) \cap {"completed_at", "result", "error"} |-> state[k]]

\* C1: when alarm() fires while the persisted job state is 'done' or
\* 'error', processAlarm is not entered, the _agent_kv table (job state and
\* alarm state) is not written and no wake-up is scheduled.
C1_TerminalWakeIsNoOp ==
    [][(pc = "idle" /\ HasState /\ Terminal(job) /\ lastOp' \in AlarmEntryOps)
         => /\ lastOp' # "alarm_begin"
            /\ pc' = "idle"
            /\ kv' = kv
            /\ alarms' \subseteq alarms]_vars

C1_Witness == lastOp = "alarm_skip" /\ HasState /\ Terminal(job)

\* C2: result and error are never both present on the persisted job state
\* (nor on the in-memory state object handed to processAlarm).
C2_ResultXorError ==
    /\ HasState => ~(Has(job, "result") /\ Has(job, "error"))
    /\ st # <<>> => ~(Has(st[1], "result") /\ Has(st[1], "error"))

\* C3: a persisted terminal job state always has completed_at, and the step
\* that makes the persisted status terminal writes completed_at and
\* updated_at in that same write (both equal the time of the write).
C3_TerminalHasCompletedAt ==
    [][/\ (HasState' /\ Terminal(job')) => Has(job', "completed_at")
       /\ (HasState /\ HasState' /\ Terminal(job') /\ job'.status # job.status)
            => /\ Has(job', "completed_at")
               /\ job'.completed_at = now
               /\ job'.updated_at = now]_vars

C3_Witness ==
    /\ HasState /\ Terminal(job) /\ Has(job, "completed_at")
    /\ lastWrite.op \in {"completeJob", "failJob"}

\* C4: once the persisted status is 'done' or 'error', no step other than a
\* new start changes it.
C4_TerminalIsAbsorbing ==
    [][(HasState /\ Terminal(job) /\ lastOp' # "start_accepted")
         => job'.status = job.status]_vars

\* C5: once the persisted status is terminal, no step other than a new
\* start changes completed_at, result or error.
C5_PayloadSetOnce ==
    [][(HasState /\ Terminal(job) /\ lastOp' # "start_accepted")
         => Payload(job') = Payload(job)]_vars

\* C6: when processAlarm throws, alarm() writes nothing to storage (the job
\* is not marked failed) and exactly one wake-up is pending afterwards, at
\* the current time plus 5000 ms, whatever processAlarm had armed.
C6_ThrowRearmsOnce ==
    [][(pc = "advance" /\ lastOp' = "alarm_throw")
         => /\ kv' = kv
            /\ Cardinality(alarms') = 1
            /\ alarms' = {now + 5000}]_vars

C6_Witness ==
    lastOp = "alarm_throw" /\ armed /\ Cardinality(alarms) = 1

\* C7 as stated: after a wake-up whose processAlarm threw, the persisted
\* job state equals the job state persisted before the wake-up.
C7_ThrowLeavesStateAsBefore ==
    [][(pc = "advance" /\ lastOp' = "alarm_throw")
         => kv'[STATE_KEY] = pre[STATE_KEY]]_vars

\* C7 amended: the catch block of alarm() writes nothing to the job state:
\* the persisted job state after the wake-up is the one processAlarm left
\* when it threw, and equals the one before the wake-up when processAlarm
\* made no saveState, completeJob or failJob call before throwing.
C7_ThrowWritesNoState ==
    [][(pc = "advance" /\ lastOp' = "alarm_throw")
         => /\ kv'[STATE_KEY] = kv[STATE_KEY]
            /\ lastWrite.op = "none" => kv'[STATE_KEY] = pre[STATE_KEY]]_vars

C7_Witness ==
    /\ lastOp = "alarm_throw" /\ lastWrite.op = "none"
    /\ HasState /\ job = pre[STATE_KEY] /\ job.status = "running"

\* C8: after a wake-up whose processAlarm returned true on a job that is
\* not terminal, a wake-up is pending.
C8_TrueLeavesWakePending ==
    (lastOp = "alarm_true" /\ HasState /\ ~Terminal(job)) => alarms # {}

\* C9: a status query answers from the job state in storage at the time of
\* the query: same status, same result; right after an accepted start the
\* answer is 'pending'; after a wake-up whose last job-state write was
\* completeJob(state, r) the answer is 'done' with result r.
C9_StatusReflectsStored ==
    [][(pc = "idle" /\ lastOp' = "status")
         => /\ HasState
            /\ resp'.status = 200
            /\ resp'.body.status = job.status
            /\ resp'.body.job_id = job.job_id
            /\ Has(resp'.body, "result") <=> Has(job, "result")
            /\ Has(job, "result") => resp'.body.result = job.result
            /\ lastOp = "start_accepted" => resp'.body.status = "pending"
            /\ (lastOp \in WakeEndOps /\ lastWrite.op = "completeJob"
                  /\ lastWrite.result # <<>>)
                 => /\ resp'.body.status = "done"
                    /\ Has(resp'.body, "result")
                    /\ resp'.body.result = lastWrite.result[1]]_vars

C9_Witness ==
    /\ lastOp = "status" /\ lastWrite.op = "completeJob"
    /\ resp.body.status = "done" /\ Has(resp.body, "result")

\* C10: a status query writes neither the _agent_kv table nor the pending
\* wake-up, and a query that follows another one with no job-state write in
\* between returns the same response.
C10_StatusIsPure ==
    [][(pc = "idle" /\ lastOp' \in {"status", "status_404"})
         => /\ kv' = kv
            /\ alarms' = alarms
            /\ (reads > 0 /\ lastOp' = "status") => resp' = resp]_vars

C10_Witness == lastOp = "status" /\ reads = 2 /\ ticks > 0 /\ alarms # {}

\* C11: a status query while no job state is stored answers 404 'Job not
\* found' (also through the router), does not go through getStatusResponse,
\* and writes nothing: no job state, no alarm state, no wake-up.
C11_StatusWithoutStateIs404 ==
    [][(pc = "idle" /\ ~HasState /\ lastOp' \in {"status", "status_404"})
         => /\ lastOp' = "status_404"
            /\ resp' = [status |-> 404, body |-> [error |-> "Job not found"]]
            /\ routerStatusCode(resp'.status) = 404
            /\ kv' = kv
            /\ ~HasState'
            /\ alarms' = alarms]_vars

C11_Witness == lastOp = "status_404" /\ ~HasState /\ resp.status = 404

\* C12: when start has just returned accepted (handleStart of the README
\* example), the initial job state is stored with status 'pending' and the
\* wake-up slot holds exactly the current time plus 100 ms.
C12_AcceptedStartPersistsAndArms ==
    lastOp = "start_accepted"
      => /\ resp.status = 200
         /\ resp.body.accepted = TRUE
         /\ HasState
         /\ job.status = "pending"
         /\ job.job_id = resp.body.job_id
         /\ alarms = {now + 100}

C12_Witness ==
    /\ lastOp = "start_accepted" /\ HasState /\ job.status = "pending"
    /\ alarms = {now + 100} /\ ticks > 0

\* C13: when fetch rejects, the body cannot be parsed, or the response is
\* not ok, pollAgentStatus returns {done: false, status: 'running'}; no call
\* of pollAgentStatus ends in an exception.
C13_PollerConservatism ==
    dOp = "pollAgentStatus"
      => /\ ~Has(dOut, "threw")
         /\ (dIn.kind = "throws" \/ ~dIn.ok \/ dIn.json.parse # "object")
              => (dOut = StillRunning /\ ~dOut.done)

C13_Witness ==
    /\ dOp = "pollAgentStatus" /\ dIn.kind = "response" /\ ~dIn.ok
    /\ dIn.json.parse = "object" /\ Has(dIn.json.data, "status")
    /\ dIn.json.data.status = "done" /\ dOut = StillRunning

\* C14: pollAgentStatus returns done: true exactly when the remote answered
\* ok with a parsed object whose status is 'done' or 'error', the returned
\* status is then the remote one; anything else gives {done: false, status:
\* 'running'}; so done holds exactly when status is not 'running'.
C14_PollClassification ==
    dOp = "pollAgentStatus"
      => LET answered == dIn.kind = "response" /\ dIn.ok
                           /\ dIn.json.parse = "object"
             remote == IF answered /\ Has(dIn.json.data, "status")
                       THEN dIn.json.data.status ELSE "absent"
         IN  /\ Has(dOut, "done") /\ Has(dOut, "status")
             /\ dOut.done <=> (answered /\ remote \in {"done", "error"})
             /\ dOut.done => dOut.status = remote
             /\ ~dOut.done => dOut = StillRunning
             /\ dOut.done <=> dOut.status # "running"
             /\ dOut.status = "error" => (answered /\ remote = "error")

C14_Witness ==
    /\ dOp = "pollAgentStatus" /\ dOut.done /\ dOut.status = "error"
    /\ dIn.json.data.status = "error"

\* C15: dispatchToAgent always returns a DispatchResult: a failure carries
\* an error, a thrown exception, an API error and a 'rejected' response are
\* failures, and success is returned only for a response without API error
\* whose data has a job_id and status 'started', with sub_job_id that job_id.
C15_DispatchNeverThrows ==
    dOp = "dispatchToAgent"
      => /\ Has(dOut, "success")
         /\ ~dOut.success => (Has(dOut, "error") /\ ~Has(dOut, "sub_job_id"))
         /\ dIn.kind = "throws" => ~dOut.success
         /\ (dIn.kind = "response" /\ dIn.error # <<>>) => ~dOut.success
         /\ (dIn.kind = "response" /\ dIn.data # <<>>
               /\ Has(dIn.data[1], "status")
               /\ dIn.data[1].status = "rejected") => ~dOut.success
         /\ dOut.success
              => /\ dIn.kind = "response" /\ dIn.error = <<>> /\ dIn.data # <<>>
                 /\ Has(dIn.data[1], "job_id") /\ Has(dIn.data[1], "status")
                 /\ dIn.data[1].status = "started"
                 /\ dOut.sub_job_id = dIn.data[1].job_id

C15_Witness ==
    /\ dOp = "dispatchToAgent" /\ dOut.success /\ dOut.sub_job_id = "sub1"

C17_PoolBound ==
    /\ 0 <= running
    /\ running <= concurrency
    /\ Cardinality({u \in Units : unit[u] = "executing"}) <= concurrency
    /\ running = Cardinality({u \in Units : unit[u] \in Holding})

C17_Witness ==
    /\ concurrency = 2 /\ running = 2 /\ Len(queue) = 1
    /\ Cardinality({u \in Units : unit[u] = "executing"}) = 2

\* C18: units are started in the order they were submitted: the sequence of
\* started units is increasing in submission number, and no unit is started
\* while a unit submitted before it waits in the queue.
C18_FifoStart ==
    /\ \A i, j \in 1..Len(started) : i < j => started[i] < started[j]
    /\ \A u, v \in Units :
         (u < v /\ unit[u] = "queued") => unit[v] \in {"new", "queued"}
    /\ \A i, j \in 1..Len(queue) : i < j => queue[i] < queue[j]

C18_Witness ==
    /\ started = <<1, 2, 3>> /\ path[2] = "queued" /\ path[3] = "queued"

C20_DrainResolvesWhenIdle ==
    /\ [][(drain # drain' /\ drain' \in {"resolved", "resolved_at_once"})
            => /\ running = 0
               /\ Len(queue) = 0
               /\ \A u \in Units : unit[u] \notin Holding \cup {"queued"}]_vars
    /\ (drain = "waiting") ~> (drain = "resolved")

C20_Witness ==
    /\ drain = "resolved" /\ submitted = MaxUnits
    /\ \E u \in Units : unit[u] = "done_failed" /\ path[u] = "queued"

\* C21: when a failed unit gives up its slot, started directly or from the
\* queue, the head of the queue (if any) is started in the same step, else
\* running drops by one; no other unit changes status; and every queued unit
\* is eventually started.
C21_FailureIsolation ==
    /\ [][\A u \in Units :
            (unit[u] \in {"failed", "wrapped_failed"} /\ unit'[u] = "done_failed")
              => /\ Len(queue) > 0
                      => /\ unit'[Head(queue)] = "executing"
                         /\ queue' = Tail(queue)
                         /\ running' = running
                 /\ Len(queue) = 0 => running' = running - 1
                 /\ \A v \in Units \ {u} :
                      \/ unit'[v] = unit[v]
                      \/ Len(queue) > 0 /\ v = Head(queue)]_vars
    /\ \A u \in Units : (unit[u] = "queued") ~> (unit[u] = "executing")

C21_Witness ==
    /\ unit[1] = "done_failed" /\ path[1] = "direct"
    /\ unit[2] = "done_failed" /\ path[2] = "queued"
    /\ unit[3] = "done_ok" /\ path[3] = "queued"

Returned(w) == wPc[w] = "done" /\ wResult[w] # <<>>
Succeeded(w) == Returned(w) /\ wResult[w][1].success

\* C22: when the collection is modified by the writers only and no remote
\* call fails otherwise than by a CAS conflict, every writer that is in its
\* loop returns, and once all W writers have returned all of them report
\* success and the collection contains exactly the W artifacts.
C22_CasConvergence ==
    /\ []((~disturbed /\ \A w \in Writers : wPc[w] = "done")
            => /\ \A w \in Writers : Succeeded(w)
               /\ contains = Writers
               /\ Cardinality(contains) = MaxWriters)
    /\ \A w \in Writers :
         (wPc[w] \in {"read", "put"}) ~> (disturbed \/ wPc[w] = "done")

C22_Witness ==
    /\ ~disturbed
    /\ \A w \in Writers : Succeeded(w)
    /\ \E w \in Writers : wAttempt[w] = MaxWriters - 1
    /\ contains = Writers

\* C23: the 'contains' relationships only grow, and they include the
\* artifact of every writer that has reported success, whatever else
\* happens to the collection and to the remote calls.
C23_NoLostUpdate ==
    [][/\ contains \subseteq contains'
       /\ \A w \in Writers :
            (wResult'[w] # <<>> /\ wResult'[w][1].success) => w \in contains']_vars

C23_Witness ==
    \E w, v \in Writers :
      /\ Succeeded(w) /\ w \in contains
      /\ wPc[v] = "put" /\ wCid[v] = "stale" /\ wAttempt[v] > 0

\* C24: one call issues at most 10 tip reads; every conditional update
\* belongs to an attempt below the ceiling whose tip read was issued, and is
\* followed by a return or by the next attempt, so there are at most 10 of
\* them; and a call whose remote calls all answer (with a conflict, another
\* rejection or an exception) returns a result.
C24_AttemptCeiling ==
    /\ [](\A w \in Writers :
            /\ wReads[w] <= 10 /\ wReads[w] <= wMax
            /\ wAttempt[w] <= wMax
            /\ wPc[w] \in {"read", "put"} => wAttempt[w] < wMax
            /\ wPc[w] = "done" => wResult[w] # <<>>)
    /\ [][\A w \in Writers :
            (wPc[w] = "put" /\ wPc'[w] # "put")
              => /\ wReads[w] = wAttempt[w] + 1
                 /\ wPc'[w] = "read" => wAttempt'[w] = wAttempt[w] + 1
                 /\ wPc'[w] \in {"read", "done", "hung"}]_vars
    /\ \A w \in Writers :
         (wPc[w] \in {"read", "put"}) ~> (wPc[w] \in {"done", "hung"})

C24_Witness ==
    \E w \in Writers :
      /\ wMax = 10 /\ wReads[w] = 10 /\ Returned(w)
      /\ wResult[w][1].error = "Max retries exceeded"

Exhausted(w) ==
    /\ Returned(w)
    /\ Has(wResult[w][1], "error")
    /\ \/ wResult[w][1].error = "Max retries exceeded"
       \/ /\ wResult[w][1].error = "Failed to update collection"
          /\ wAttempt[w] = wMax - 1

\* C25: a call that used up its attempts returns success: false together with
\* the id of the file it created; the file exists and is not among the
\* collection's 'contains' peers; and a call that has returned makes no
\* further remote call and changes nothing on the remote.
C25_ExhaustedLeavesOrphan ==
    /\ [](\A w \in Writers :
            Exhausted(w)
              => /\ ~wResult[w][1].success
                 /\ Has(wResult[w][1], "fileId") /\ wResult[w][1].fileId = w
                 /\ w \in files
                 /\ w \notin contains)
    /\ [][\A w \in Writers :
            wPc[w] = "done"
              => /\ wPc'[w] = "done" /\ wResult'[w] = wResult[w]
                 /\ wReads'[w] = wReads[w] /\ wCreates'[w] = wCreates[w]
                 /\ w \in files <=> w \in files'
                 /\ w \in contains <=> w \in contains']_vars

C25_Witness ==
    \E w, v \in Writers :
      /\ Exhausted(w) /\ wResult[w][1].error = "Failed to update collection"
      /\ Succeeded(v)

\* C26: writeJobLog issues POST /files once, before any tip read or
\* conditional update; when no file was created it returns success: false
\* (or its POST never answers) having read no tip and updated nothing; and it
\* never throws.
C26_CreateOnceFirst ==
    \A w \in Writers :
      /\ wCreates[w] <= 1
      /\ wPc[w] # "threw"
      /\ wPc[w] # "idle" => wCreates[w] = 1
      /\ (wReads[w] > 0 \/ wPc[w] \in {"read", "put"} \/ w \in contains)
           => (wCreates[w] = 1 /\ w \in files)
      /\ (wPc[w] # "idle" /\ w \notin files)
           => /\ wReads[w] = 0
              /\ w \notin contains
              /\ \/ wPc[w] = "hung"
                 \/ /\ Returned(w)
                    /\ ~wResult[w][1].success
                    /\ ~Has(wResult[w][1], "fileId")

C26_Witness ==
    \E w, v \in Writers :
      /\ Returned(w) /\ w \notin files /\ wResult[w][1].error = "err.message"
      /\ v \in files /\ wReads[v] > 0

\* C27: when a wake-up enters processAlarm, the alarm state it passes is
\* { phase: 'dispatch' } if no alarm-state record is stored, and otherwise
\* the stored record.
C27_AlarmStateHandedBack ==
    [][(pc = "idle" /\ pc' = "advance" /\ lastOp' = "alarm_begin")
         => ast' = IF Has(kv, ALARM_STATE_KEY)
                   THEN <<kv[ALARM_STATE_KEY]>>
                   ELSE <<[phase |-> "dispatch"]>>]_vars

C27_Witness ==
    /\ lastOp = "alarm_begin" /\ pc = "advance"
    /\ Has(kv, ALARM_STATE_KEY) /\ kv[ALARM_STATE_KEY].phase = "poll"
    /\ ast = <<[phase |-> "poll"]>>

\* C28: whenever the persisted job status is 'done' or 'error', no
\* alarm-state record is stored.
C28_TerminalHasNoAlarmState ==
    (HasState /\ Terminal(job)) => ~Has(kv, ALARM_STATE_KEY)

\* C29: a call of pollAgentStatusUntilDone whose remote endpoint never
\* answers returns all the same.
C29_HungCallReturns ==
    (uPc = "hung") ~> (uPc = "returned")

\* the conditions C30 lists, stated on the request and its circumstances
Passes(i) ==
    /\ i.header
    /\ i.body.parse = "object"
    /\ i.verify.kind = "valid"
    /\ \A k \in {"job_id", "target", "job_collection"} :
         Has(i.body.data, k) /\ i.body.data[k] # ""
    /\ i.apiKey
    /\ i.pre \notin {"throwsError", "throwsOther"}

\* C30: POST /process sends a start to the actor only when the signature
\* header is present, the body parses, the signature verifies, job_id, target
\* and job_collection are present, the API key is set and preProcess did not
\* throw; otherwise it sends nothing, the actor's storage and wake-up are
\* untouched and the response does not accept; when only the API key is
\* missing the response is 503 with retry_after.
C30_RejectedBeforeActor ==
    [][rCalls' # rCalls
         => LET i == rIn'[1]
                r == rResp'[1]
            IN  /\ rSent' # rSent => Passes(i)
                /\ ~Passes(i)
                     => /\ rSent' = rSent
                        /\ kv' = kv
                        /\ alarms' = alarms
                        /\ r.status \in {400, 401, 500, 503}
                        /\ ~(Has(r.body, "accepted") /\ r.body.accepted)
                /\ (Passes([i EXCEPT !.apiKey = TRUE]) /\ ~i.apiKey)
                     => /\ r.status = 503
                        /\ Has(r.body, "retry_after")]_vars

C30_Witness ==
    /\ rCalls = 2 /\ rSent = 1 /\ kv # <<>>
    /\ ~rIn[1].apiKey /\ rResp[1].status = 503

\* C31: however many wake-ups in a row have ended in the catch block, the
\* next one that does is handled the same way: a wake-up is pending
\* afterwards, later than now, the catch block does not change the job's
\* status, and a job that was not terminal before it is not terminal after.
C31_NoRetryCeiling ==
    [][(pc = "advance" /\ pc' = "idle" /\ lastOp' = "alarm_throw")
         => /\ throws' = throws + 1
            /\ alarms' # {}
            /\ \A t \in alarms' : t > now
            /\ job'.status = job.status
            /\ ~Terminal(job) => ~Terminal(job')]_vars

C31_Witness ==
    /\ throws = 2 /\ lastOp = "alarm_throw" /\ pc = "idle"
    /\ HasState /\ ~Terminal(job)
    /\ alarms = {now + RetryDelayMs}

\* C32: a tip read is issued with no token in hand and, when it answers,
\* the token held is the one it returned; a conditional update is sent in the
\* attempt whose tip read returned the token, and the token is dropped with
\* the attempt.
C32_TipReadEachAttempt ==
    [][\A w \in Writers :
         /\ (wPc[w] = "read" /\ wPc'[w] = "put")
              => /\ wCid[w] = "none"
                 /\ wCid'[w] = "tip"
                 /\ wReads'[w] = wAttempt[w] + 1
                 /\ wAttempt'[w] = wAttempt[w]
         /\ (wPc[w] = "put" /\ wPc'[w] # "put")
              => /\ putBody(w).expect_tip \in {"tip", "stale"}
                 /\ wReads[w] = wAttempt[w] + 1
                 /\ wCid'[w] = "none"]_vars

C32_Witness ==
    \E w \in Writers :
      wPc[w] = "put" /\ wAttempt[w] = 2 /\ wCid[w] = "tip" /\ wReads[w] = 3

\* this step makes the call of writer w return failure with this error
Failed(w, error) ==
    /\ wPc'[w] = "done"
    /\ ~wResult'[w][1].success
    /\ wResult'[w][1].error = error
    /\ wAttempt'[w] = wAttempt[w]

\* C33 as stated: a conditional update rejected for a reason that is not a
\* CAS conflict makes the writer return failure at once.
C33_OtherRejectionFails ==
    [][\A w \in Writers : \A e \in OtherRejections :
         updateWith(w, e) => Failed(w, "Failed to update collection")]_vars

\* C33 amended: the writer goes to another attempt only after an exception or
\* after a rejection whose text matches the conflict patterns, be it a CAS
\* conflict or not; a rejection that matches none, and a tip read that
\* returns nothing, make it return failure at once with no further remote
\* call; a matching rejection in the last permitted attempt returns failure
\* too.
C33_RetryOnlyOnMatch ==
    [][\A w \in Writers :
         /\ \A e \in OtherRejections :
              (updateWith(w, e) /\ ~IsConflict(e))
                => Failed(w, "Failed to update collection")
         /\ readTipWith(w, "none") => Failed(w, "Job collection not found")
         /\ \A e \in OtherRejections \cup {"answer"} :
              (/\ updateWith(w, e)
               /\ wAttempt[w] = wMax - 1
               /\ e = "answer" => wCid[w] # "tip")
                => Failed(w, "Failed to update collection")
         /\ (wPc'[w] = "read" /\ wAttempt'[w] = wAttempt[w] + 1)
              => \/ readTipWith(w, "throw")
                 \/ updateWith(w, "throw")
                 \/ updateWith(w, "answer") /\ wCid[w] # "tip"
                 \/ \E e \in OtherRejections : IsConflict(e) /\ updateWith(w, e)]_vars

C33_Witness ==
    \E w \in Writers :
      /\ Returned(w) /\ ~wResult[w][1].success
      /\ wResult[w][1].error = "Failed to update collection"
      /\ wAttempt[w] = 1 /\ wReads[w] = 2

\* C34: an accepted conditional update makes the call return success at
\* once; a call returns success only through an accepted update; a call that
\* returned sends nothing more; so a writer has reported success exactly
\* when its artifact is among the collection's 'contains' peers.
C34_SuccessIffAccepted ==
    /\ [](\A w \in Writers : Succeeded(w) <=> w \in contains)
    /\ [][\A w \in Writers :
            /\ (updateWith(w, "answer") /\ wCid[w] = "tip")
                 => /\ wPc'[w] = "done" /\ wResult'[w][1].success
                    /\ w \in contains'
            /\ (wResult[w] = <<>> /\ wResult'[w] # <<>> /\ wResult'[w][1].success)
                 => (updateWith(w, "answer") /\ wCid[w] = "tip")
            /\ wPc[w] = "done" => (wPc'[w] = "done" /\ wResult'[w] = wResult[w])]_vars

C34_Witness ==
    \E w, v \in Writers :
      /\ Succeeded(w) /\ wAttempt[w] > 0
      /\ Exhausted(v) /\ v \notin contains

FailedCall(o) == o.kind = "error"
Max0 == IF tArgs[1].maxRetries > 0 THEN tArgs[1].maxRetries ELSE 0

C36_UpdatedAtFresh ==
    [][/\ (HasState' /\ (~HasState \/ job' # job)) => job'.updated_at = now'
       /\ (HasState /\ HasState') => job.updated_at <= job'.updated_at
       /\ (HasState' /\ Has(job', "completed_at"))
            => job'.completed_at <= job'.updated_at]_vars

C36_Witness ==
    /\ HasState /\ Has(job, "completed_at")
    /\ job.started_at < job.completed_at
    /\ job.updated_at = job.completed_at

\* C37: a 'start' is handed to handleStart whatever job state is stored:
\* whenever the actor is between handlers a start can be accepted, also when
\* the stored job is 'done' or 'error', and accepting it leaves the stored
\* state 'pending' with a wake-up armed.
C37_NoDuplicateStartProtection ==
    /\ [](pc = "idle" => ENABLED fetchStartAccept)
    /\ [][fetchStartAccept
            => /\ HasState' /\ job'.status = "pending"
               /\ ~Has(job', "completed_at")
               /\ alarms' # {}]_vars

C37_Witness ==
    /\ lastOp = "start_accepted"
    /\ HasState /\ job.status = "pending" /\ alarms # {}
    /\ STATE_KEY \in DOMAIN pre /\ Terminal(pre[STATE_KEY])

\* C38: whenever control is back in the event loop, a non-empty queue
\* implies that all K slots are taken: no slot is idle while a unit waits.
C38_WorkConserving ==
    (concurrency >= 1 /\ Len(queue) > 0) => running = concurrency

C38_Witness ==
    /\ Len(queue) > 0 /\ running = concurrency
    /\ \E u \in Units : unit[u] \in {"done_ok", "done_failed"}
    /\ \E u \in Units : unit[u] \in Holding /\ path[u] = "queued"

InSeq(x, seq) == \E i \in 1..Len(seq) : seq[i] = x
Occurrences(x, seq) == Cardinality({i \in 1..Len(seq) : seq[i] = x})

\* C39: every submitted unit is either waiting in the queue (once) or has
\* been started (once), never both and never neither; a unit that was
\* started is never started again; and every submitted unit is eventually
\* started.
C39_StartedExactlyOnce ==
    /\ [](\A u \in Units :
            /\ Occurrences(u, started) <= 1
            /\ Occurrences(u, queue) <= 1
            /\ u <= submitted
                 <=> Occurrences(u, started) + Occurrences(u, queue) = 1
            /\ InSeq(u, queue) <=> unit[u] = "queued"
            /\ InSeq(u, started) <=> unit[u] \notin {"new", "queued"})
    /\ [][\A u \in Units :
            InSeq(u, started) => (InSeq(u, started') /\ unit'[u] # "queued")]_vars
    /\ \A u \in Units : (u <= submitted) ~> InSeq(u, started)

C39_Witness ==
    /\ submitted = MaxUnits /\ Len(started) = MaxUnits
    /\ \E u \in Units : path[u] = "queued" /\ InSeq(u, started)
    /\ \E u \in Units : unit[u] = "done_failed"

\* C40: once a unit's fn() has settled, fulfilled or rejected, started at
\* once or taken from the queue, the promise returned by its add() is
\* eventually settled.
C40_AddSettlesAfterUnit ==
    \A u \in Units :
      (unit[u] \in {"ok", "failed"}) ~> (addPromise[u] \in {"resolved", "rejected"})

====
